---- MODULE Spec2Model ----
(***************************************************************************)
(* Model of the Bender simulator (main.go): the 2D-array finite state      *)
(* machine FSM, the BenderSimulator policy, the two callbacks that couple  *)
(* them and the driver loop of main.                                       *)
(*                                                                         *)
(* Coordinates are 0-based as in the Go code; TLA+ sequences are 1-based,  *)
(* so the tile at Pair (x, y) is states[y + 1][x + 1] and the selected     *)
(* priority is priorities[currDir + 1].  Tiles and digits are one-char     *)
(* strings; a Go string is the sequence of its characters.                 *)
(***************************************************************************)
EXTENDS Integers, Sequences, FiniteSets, TLC

VARIABLES
    plan,    \* the plan handed to NewFSM / calcNumStates (never modified)
    fsm,     \* the FSM object: states, curr, teleports
    bender,  \* the BenderSimulator object
    pc,      \* position of the caller: "run", "exit", "failed", "panic"
    last,    \* the last FSM.Event call: request, event object, callbacks run, error
    out,     \* what main printed from ShowPath (<<>> until it prints)
    ids,     \* the state identifiers handed to Remember so far, in call order
    looped,  \* the caller has seen Loop() return true
    extra    \* number of Event calls issued after Loop() was seen true

vars == <<plan, fsm, bender, pc, last, out, ids, looped, extra>>

----------------------------------------------------------------------------
(* Bounds of the model *)

\* largest number of tiles other than ' ' and '@' in a generated plan
MaxSpecial == 2
\* how many Event calls the continued run issues past the loop report
MaxExtra == 3
\* longest recorded path in the specifications with free requests
MaxPath == 4
\* largest number of Remember calls in the specification of Remember
MaxRemember == 4
\* largest loop threshold handed to NewBenderSimulator in the specification of Remember
MaxThreshold == 2

----------------------------------------------------------------------------
(* Constants of main.go *)

SOUTH == "SOUTH"
NORTH == "NORTH"
EAST == "EAST"
WEST == "WEST"
LOOP == "LOOP"

Directions == {SOUTH, NORTH, EAST, WEST}

\* the tile alphabet of the plans
Tiles == {"#", " ", "@", "$", "X", "B", "T", "S", "N", "E", "W", "I"}

Pair(px, py) == [x |-> px, y |-> py]

----------------------------------------------------------------------------
(* BenderSimulator *)

NewBenderSimulator(stateNum) ==
    [done |-> FALSE, breaker |-> FALSE, boom |-> FALSE, resetDir |-> FALSE,
     invertPrio |-> FALSE, currDir |-> 0,
     priorities |-> <<SOUTH, EAST, NORTH, WEST>>,
     pathModifier |-> "", path |-> <<>>, cache |-> {}, loopCnt |-> 0,
     maxNumStates |-> stateNum]

Done(b) == b.done

Loop_Geq(b) == b.loopCnt >= b.maxNumStates

Loop(b) == IF b.loopCnt > b.maxNumStates THEN TRUE ELSE FALSE

Direction(b) ==
    IF b.pathModifier # "" THEN b.pathModifier ELSE b.priorities[b.currDir + 1]

ShowPath_NoSentinel(b) == b.path

ShowPath(b) == IF Loop(b) THEN <<LOOP>> ELSE b.path

Breaker(b) == b.breaker

InvertBreaker(b) ==
    IF b.breaker THEN [b EXCEPT !.breaker = FALSE] ELSE [b EXCEPT !.breaker = TRUE]

Reached(b) == [b EXCEPT !.done = TRUE]

\* the swap loop of turnoverPriorities: i runs from 0 while i < len/2, j from len-1
RECURSIVE SwapLoop(_, _, _)
SwapLoop(p, i, j) ==
    IF i < Len(p) \div 2
    THEN SwapLoop([p EXCEPT ![i + 1] = p[j + 1], ![j + 1] = p[i + 1]], i + 1, j - 1)
    ELSE p

turnoverPriorities(b) ==
    [b EXCEPT !.priorities = SwapLoop(b.priorities, 0, Len(b.priorities) - 1),
              !.invertPrio = FALSE]

InvertPriorities_Immediate(b) == turnoverPriorities(b)

InvertPriorities_ArmOnly(b) == [b EXCEPT !.invertPrio = TRUE]

InvertPriorities(b) ==
    IF b.invertPrio THEN [b EXCEPT !.invertPrio = FALSE]
    ELSE [b EXCEPT !.invertPrio = TRUE]

Remember_NoReset(b, dir, state) ==
    LET b1 == [b EXCEPT !.path = Append(b.path, dir)] IN
    IF state \in b1.cache
    THEN [b1 EXCEPT !.loopCnt = b1.loopCnt + 1]
    ELSE [b1 EXCEPT !.cache = b1.cache \cup {state}]

Remember(b, dir, state) ==
    LET b1 == [b EXCEPT !.path = Append(b.path, dir)] IN
    IF state \in b1.cache
    THEN [b1 EXCEPT !.loopCnt = b1.loopCnt + 1]
    ELSE [b1 EXCEPT !.cache = b1.cache \cup {state}, !.loopCnt = 0]

PathModifier_KeepFirst(b, dir) ==
    IF b.pathModifier # "" THEN b ELSE [b EXCEPT !.pathModifier = dir]

PathModifier(b, dir) == [b EXCEPT !.pathModifier = dir]

NextDirection_WrapToOne(b) ==
    IF b.resetDir
    THEN [b EXCEPT !.currDir = 0, !.resetDir = FALSE]
    ELSE IF b.currDir + 1 >= Len(b.priorities)
         THEN [b EXCEPT !.currDir = 1]
         ELSE [b EXCEPT !.currDir = b.currDir + 1]

NextDirection(b) ==
    IF b.resetDir
    THEN [b EXCEPT !.currDir = 0, !.resetDir = FALSE]
    ELSE IF b.currDir + 1 >= Len(b.priorities)
         THEN [b EXCEPT !.currDir = 0]
         ELSE [b EXCEPT !.currDir = b.currDir + 1]

Boom(b) ==
    LET b1 == [b EXCEPT !.boom = TRUE, !.pathModifier = ""] IN
    IF b1.invertPrio
    THEN [turnoverPriorities(b1) EXCEPT !.resetDir = TRUE]
    ELSE b1

Hurts(b) == b.boom

BackOnTrack_NoReset(b) == [b EXCEPT !.boom = FALSE]

BackOnTrack(b) == [b EXCEPT !.boom = FALSE, !.resetDir = TRUE]

----------------------------------------------------------------------------
(* FSM *)

\* the zero value Pair{}
PairZero == Pair(0, 0)

\* the inner range loop of NewFSM over row i, from column j (both 0-based),
\* with its break once two teleports and the start are known
RECURSIVE ScanRow(_, _, _, _)
ScanRow(row, i, j, acc) ==
    IF j >= Len(row) THEN acc
    ELSE IF Len(acc.tp) = 2 /\ acc.start # PairZero THEN acc
    ELSE LET c == row[j + 1] IN
         CASE c = "@" -> ScanRow(row, i, j + 1, [acc EXCEPT !.start = Pair(j, i)])
           [] c = "T" -> ScanRow(row, i, j + 1, [acc EXCEPT !.tp = Append(acc.tp, Pair(j, i))])
           [] OTHER -> ScanRow(row, i, j + 1, acc)

\* the outer range loop of NewFSM, from row i
RECURSIVE ScanPlan(_, _, _)
ScanPlan(p, i, acc) ==
    IF i >= Len(p) THEN acc
    ELSE ScanPlan(p, i + 1, ScanRow(p[i + 1], i, 0, acc))

NewFSM(p) ==
    LET r == ScanPlan(p, 0, [start |-> PairZero, tp |-> <<>>]) IN
    [states |-> p, curr |-> r.start, teleports |-> r.tp]

\* the value of f.states[p.y][p.x]
StateAt(f, p) == f.states[p.y + 1][p.x + 1]

\* the switch of FSM.Event that computes dst
EventDst_SouthUp(curr, evt) ==
    CASE evt = SOUTH -> Pair(curr.x, curr.y - 1)
      [] evt = NORTH -> Pair(curr.x, curr.y + 1)
      [] evt = EAST -> Pair(curr.x + 1, curr.y)
      [] evt = WEST -> Pair(curr.x - 1, curr.y)
      [] OTHER -> PairZero

EventDst(curr, evt) ==
    CASE evt = SOUTH -> Pair(curr.x, curr.y + 1)
      [] evt = NORTH -> Pair(curr.x, curr.y - 1)
      [] evt = EAST -> Pair(curr.x + 1, curr.y)
      [] evt = WEST -> Pair(curr.x - 1, curr.y)
      [] OTHER -> PairZero

\* the bounds test of FSM.Event: TRUE when Event returns the error
UnknownState(f, dst) ==
    dst.x < 0 \/ dst.x >= Len(f.states[1]) \/ dst.y < 0 \/ dst.y >= Len(f.states)

SetState(f, p) == [f EXCEPT !.curr = p]

\* TeleportDst panics unless there are exactly two teleports
TeleportPanics(f) == Len(f.teleports) # 2

TeleportDst_Second(f, ps) == f.teleports[2]

TeleportDst(f, ps) ==
    IF f.teleports[1].x = ps.x /\ f.teleports[1].y = ps.y
    THEN f.teleports[2]
    ELSE f.teleports[1]

----------------------------------------------------------------------------
(* Event *)

NewEvent_CurrTile(f, evt, dst, args) ==
    [Event |-> evt, Dst |-> StateAt(f, f.curr), dstC |-> dst, Cancelled |-> FALSE,
     Args |-> args]

\* the Event object built by FSM.Event; Args holds the caller's arguments
NewEvent(f, evt, dst, args) ==
    [Event |-> evt, Dst |-> StateAt(f, dst), dstC |-> dst, Cancelled |-> FALSE,
     Args |-> args]

Cancel(e) == [e EXCEPT !.Cancelled = TRUE]

ChangeDst_AtCurr(f, e, dst) == [f EXCEPT !.states[f.curr.y + 1][f.curr.x + 1] = dst]

ChangeDst(f, e, dst) == [f EXCEPT !.states[e.dstC.y + 1][e.dstC.x + 1] = dst]

\* %d of a non-negative int: its decimal digits
Digit(n) == CASE n = 0 -> "0" [] n = 1 -> "1" [] n = 2 -> "2" [] n = 3 -> "3"
              [] n = 4 -> "4" [] n = 5 -> "5" [] n = 6 -> "6" [] n = 7 -> "7"
              [] n = 8 -> "8" [] n = 9 -> "9"

RECURSIVE FormatInt(_)
FormatInt(n) == IF n < 10 THEN <<Digit(n)>> ELSE Append(FormatInt(n \div 10), Digit(n % 10))

\* Sprintf("%c%d%d", Dst, x, y)
UniqueDst(e) == <<e.Dst>> \o FormatInt(e.dstC.x) \o FormatInt(e.dstC.y)

----------------------------------------------------------------------------
(* The callbacks and FSM.Event *)

\* What one FSM.Event call works on: the FSM, the simulator passed in Args,
\* the event object, the callbacks invoked so far (each with the event and the
\* position it saw on entry, as the test's recorder stores them), the state
\* identifier handed to Remember, and whether TeleportDst panicked.
World(f, b, e) ==
    [fsm |-> f, bender |-> b, e |-> e, calls |-> <<>>, remembered |-> <<>>,
     panic |-> FALSE]

\* the callback named cb is entered
Called(cb, w) ==
    [w EXCEPT !.calls = Append(w.calls, [cb |-> cb, e |-> w.e, curr |-> w.fsm.curr])]

Obstacle_NoCancel(w) == [w EXCEPT !.bender = NextDirection(Boom(w.bender))]

\* the obstacle branch shared by '#' and 'X' without breaker mode
Obstacle(w) ==
    [w EXCEPT !.bender = NextDirection(Boom(w.bender)), !.e = Cancel(w.e)]

beforeCallback_BreakAlways(w) ==
    CASE w.e.Dst = "#" -> Obstacle(w)
      [] w.e.Dst = "X" -> [w EXCEPT !.fsm = ChangeDst(w.fsm, w.e, " ")]
      [] OTHER -> w

beforeCallback(w) ==
    CASE w.e.Dst = "#" -> Obstacle(w)
      [] w.e.Dst = "X" ->
            IF Breaker(w.bender)
            THEN [w EXCEPT !.fsm = ChangeDst(w.fsm, w.e, " ")]
            ELSE Obstacle(w)
      [] OTHER -> w

\* the switch of enterCallback on e.Dst
EnterSwitch(w) ==
    CASE w.e.Dst = "B" -> [w EXCEPT !.bender = InvertBreaker(w.bender)]
      [] w.e.Dst = "S" -> [w EXCEPT !.bender = PathModifier(w.bender, SOUTH)]
      [] w.e.Dst = "N" -> [w EXCEPT !.bender = PathModifier(w.bender, NORTH)]
      [] w.e.Dst = "E" -> [w EXCEPT !.bender = PathModifier(w.bender, EAST)]
      [] w.e.Dst = "W" -> [w EXCEPT !.bender = PathModifier(w.bender, WEST)]
      [] w.e.Dst = "I" -> [w EXCEPT !.bender = InvertPriorities(w.bender)]
      [] w.e.Dst = "T" ->
            IF TeleportPanics(w.fsm)
            THEN [w EXCEPT !.panic = TRUE]
            ELSE [w EXCEPT !.fsm = SetState(w.fsm, TeleportDst(w.fsm, w.e.dstC))]
      [] w.e.Dst = "$" -> [w EXCEPT !.bender = Reached(w.bender)]
      [] OTHER -> w

\* a panic in TeleportDst unwinds enterCallback before Remember
enterCallback(w) ==
    LET w1 == IF Hurts(w.bender) THEN [w EXCEPT !.bender = BackOnTrack(w.bender)] ELSE w
        w2 == EnterSwitch(w1)
    IN  IF w2.panic THEN w2
        ELSE [w2 EXCEPT !.bender = Remember(w2.bender, w2.e.Event, UniqueDst(w2.e)),
                        !.remembered = <<UniqueDst(w2.e)>>]

\* the event object of a call that built none
NoEvent == [Event |-> "", Dst |-> "", dstC |-> PairZero, Cancelled |-> FALSE, Args |-> <<>>]

\* the values of the error FSM.Event returns
ErrNil == "nil"
ErrUnknownState == "unknown state"

\* the result of a call: the world it leaves and the error it returns
Returned(w, err) == w @@ [err |-> err]

\* the world the pre-transition callback of a request leaves
AfterBefore(f, b, evt, dst, args) ==
    beforeCallback(Called("before", World(f, b, NewEvent(f, evt, dst, args))))

\* f.curr = dst, then the post-transition callback
Enter(w1, dst) == enterCallback(Called("enter", [w1 EXCEPT !.fsm = SetState(w1.fsm, dst)]))

FSMEvent_EnterCancelled(f, b, evt, args) ==
    LET dst == EventDst(f.curr, evt) IN
    IF UnknownState(f, dst)
    THEN Returned(World(f, b, NoEvent), ErrUnknownState)
    ELSE CHOOSE r \in {Returned(Enter(w1, dst), ErrNil) :
                         w1 \in {AfterBefore(f, b, evt, dst, args)}} : TRUE

FSMEvent_MoveFirst(f, b, evt, args) ==
    LET dst == EventDst(f.curr, evt) IN
    IF UnknownState(f, dst)
    THEN Returned(World(SetState(f, dst), b, NoEvent), ErrUnknownState)
    ELSE CHOOSE r \in {IF w1.e.Cancelled THEN Returned(w1, ErrNil)
                       ELSE Returned(Enter(w1, dst), ErrNil) :
                         w1 \in {AfterBefore(f, b, evt, dst, args)}} : TRUE

\* FSM.Event(evt, args...); w1 is the world after the pre-transition callback
FSMEvent(f, b, evt, args) ==
    LET dst == EventDst(f.curr, evt) IN
    IF UnknownState(f, dst)
    THEN Returned(World(f, b, NoEvent), ErrUnknownState)
    ELSE CHOOSE r \in {IF w1.e.Cancelled THEN Returned(w1, ErrNil)
                       ELSE Returned(Enter(w1, dst), ErrNil) :
                         w1 \in {AfterBefore(f, b, evt, dst, args)}} : TRUE

calcNumStates(p) ==
    LET l == Len(p[1])
        w == Len(p)
    IN  (w - 2) * (l - 2)

----------------------------------------------------------------------------
(* The plans the model runs on *)

\* plan of TestFSM/nominal
PlanNominal ==
    <<<<"#", "#", "#", "#", "#">>,
      <<"#", "$", " ", "X", "#">>,
      <<"#", " ", "@", "B", "#">>,
      <<"#", "#", "#", "#", "#">>>>

\* plan of TestFSM/cancelled
PlanCancelled ==
    <<<<"#", "#", "#", "#", "#">>,
      <<"#", "$", " ", " ", "#">>,
      <<"#", "@", " ", "X", "#">>,
      <<"#", "#", "#", "#", "#">>>>

\* plan of main
PlanMain ==
    <<<<"#", "#", "#", "#", "#", "#", "#", "#">>,
      <<"#", " ", " ", " ", " ", " ", "$", "#">>,
      <<"#", " ", " ", " ", " ", " ", " ", "#">>,
      <<"#", " ", " ", " ", " ", " ", " ", "#">>,
      <<"#", " ", " ", "@", " ", " ", " ", "#">>,
      <<"#", " ", " ", " ", " ", " ", " ", "#">>,
      <<"#", " ", " ", " ", " ", " ", " ", "#">>,
      <<"#", "#", "#", "#", "#", "#", "#", "#">>>>

\* a corridor with two inverters around the start and the booth behind a modifier
PlanInverters ==
    <<<<"#", "#", "#", "#", "#", "#", "#">>,
      <<"#", "$", "S", "I", "@", "I", "#">>,
      <<"#", "#", "#", "#", "#", "#", "#">>>>

\* a plan without '@': NewFSM leaves the start at Pair{}
PlanNoStart ==
    <<<<"#", "#", "#">>,
      <<"#", " ", "#">>,
      <<"#", "#", "#">>>>

\* a plan without a frame
PlanOpen ==
    <<<<"@", " ", "T">>,
      <<"X", "B", "T">>,
      <<"I", " ", "$">>>>

\* a one-row plan without a frame
PlanOpenRow ==
    <<<<"S", "@", "X", "#">>>>

\* a plan of 4 x 4 tiles, its frame all walls, with the interior tiles c[1] .. c[4]
Framed(c) ==
    <<<<"#", "#", "#", "#">>,
      <<"#", c[1], c[2], "#">>,
      <<"#", c[3], c[4], "#">>,
      <<"#", "#", "#", "#">>>>

\* the framed plans with one '@' and at most MaxSpecial tiles other than ' '
GeneratedPlans ==
    {Framed(c) : c \in {d \in [1 .. 4 -> Tiles] :
                          /\ Cardinality({i \in 1 .. 4 : d[i] = "@"}) = 1
                          /\ Cardinality({i \in 1 .. 4 : d[i] \notin {" ", "@"}}) <= MaxSpecial}}

\* plans with three 'T': the start before the third of them in the scan of
\* NewFSM, and after it
PlanThreeTeleports == Framed(<<"@", "T", "T", "T">>)
PlanTeleportsFirst == Framed(<<"T", "T", "T", "@">>)

\* a plan of two rows and one column: calcNumStates gives the threshold 0
PlanZeroThreshold ==
    <<<<"@">>,
      <<"$">>>>

\* the plans of the driver runs; PlanOpenRow has a negative threshold
Plans ==
    GeneratedPlans \cup {PlanNominal, PlanCancelled, PlanMain, PlanInverters, PlanNoStart,
                         PlanThreeTeleports, PlanTeleportsFirst, PlanZeroThreshold,
                         PlanOpenRow}

\* the plans of the runs with free requests
FreePlans == {PlanNominal, PlanCancelled, PlanInverters, PlanNoStart, PlanOpen, PlanOpenRow}

----------------------------------------------------------------------------
(* Shape of a plan *)

Rows(p) == Len(p)
Cols(p) == Len(p[1])

Rectangular(p) == \A i \in 1 .. Len(p) : Len(p[i]) = Len(p[1])

\* the outer frame is one tile thick and all walls
WallFrame(p) ==
    /\ Rectangular(p) /\ Rows(p) >= 3 /\ Cols(p) >= 3
    /\ \A i \in 1 .. Rows(p) : p[i][1] = "#" /\ p[i][Cols(p)] = "#"
    /\ \A j \in 1 .. Cols(p) : p[1][j] = "#" /\ p[Rows(p)][j] = "#"

CountTile(p, t) == Cardinality({q \in (1 .. Rows(p)) \X (1 .. Cols(p)) : p[q[1]][q[2]] = t})

----------------------------------------------------------------------------
(* main: the driver loop *)

\* the arguments main passes to Event: the simulator
MainArgs == <<"bender">>

NoCall == [evt |-> "", from |-> PairZero, before |-> <<>>, e |-> NoEvent, calls |-> <<>>,
           err |-> ErrNil, panic |-> FALSE]

InitOn(p) ==
    /\ plan = p
    /\ fsm = NewFSM(p)
    /\ bender = NewBenderSimulator(calcNumStates(p))
    /\ pc = "run"
    /\ last = NoCall
    /\ out = <<>>
    /\ ids = <<>>
    /\ looped = FALSE
    /\ extra = 0

Init == \E p \in Plans : InitOn(p)

\* one call m.Event(evt, bender) and what the caller does with its result
Call(evt, r) ==
    /\ fsm' = r.fsm
    /\ bender' = r.bender
    /\ ids' = ids \o r.remembered
    /\ last' = [evt |-> evt, from |-> fsm.curr, before |-> fsm.states, e |-> r.e,
                calls |-> r.calls, err |-> r.err, panic |-> r.panic]

\* the loop condition of main
MainLoopCond == ~Done(bender) /\ ~Loop(bender)

\* the result of m.Event(bender.Direction(), bender)
MainResult == FSMEvent(fsm, bender, Direction(bender), MainArgs)

\* an iteration whose Event call returns the error: main reports it and returns
MainEventFailed ==
    /\ pc = "run" /\ MainLoopCond
    /\ \E r \in {MainResult} :
          /\ r.err # ErrNil
          /\ Call(Direction(bender), r)
    /\ pc' = "failed"
    /\ UNCHANGED <<plan, out, looped, extra>>

\* an iteration whose move is cancelled by beforeCallback
MainEventCancelled ==
    /\ pc = "run" /\ MainLoopCond
    /\ \E r \in {MainResult} :
          /\ r.err = ErrNil /\ r.e.Cancelled
          /\ Call(Direction(bender), r)
    /\ UNCHANGED <<plan, pc, out, looped, extra>>

\* an iteration whose move is committed
MainEventEntered ==
    /\ pc = "run" /\ MainLoopCond
    /\ \E r \in {MainResult} :
          /\ r.err = ErrNil /\ ~r.e.Cancelled /\ ~r.panic
          /\ Call(Direction(bender), r)
    /\ UNCHANGED <<plan, pc, out, looped, extra>>

\* an iteration in which TeleportDst panics
MainEventPanic ==
    /\ pc = "run" /\ MainLoopCond
    /\ \E r \in {MainResult} :
          /\ r.panic
          /\ Call(Direction(bender), r)
    /\ pc' = "panic"
    /\ UNCHANGED <<plan, out, looped, extra>>

\* the loop ends and main prints ShowPath
MainPrint ==
    /\ pc = "run" /\ ~MainLoopCond
    /\ pc' = "exit"
    /\ out' = ShowPath(bender)
    /\ looped' = (looped \/ Loop(bender))
    /\ UNCHANGED <<plan, fsm, bender, last, ids, extra>>

Next == MainEventFailed \/ MainEventCancelled \/ MainEventEntered \/ MainEventPanic \/ MainPrint

Spec == Init /\ [][Next]_vars

\* main runs to completion: the loop is not suspended
FairSpec == Spec /\ WF_vars(Next)

----------------------------------------------------------------------------
(* The same run continued past the loop report *)

\* an iteration issued although Loop() is true: what the simulation would do next
PastLoopEvent ==
    /\ pc = "run" /\ ~Done(bender) /\ Loop(bender)
    /\ extra < MaxExtra
    /\ \E r \in {MainResult} :
          /\ r.err = ErrNil /\ ~r.panic
          /\ Call(Direction(bender), r)
    /\ looped' = TRUE
    /\ extra' = extra + 1
    /\ UNCHANGED <<plan, pc, out>>

NextContinue ==
    \/ MainEventFailed \/ MainEventCancelled \/ MainEventEntered \/ MainEventPanic
    \/ MainPrint \/ PastLoopEvent

SpecContinue == Init /\ [][NextContinue]_vars

----------------------------------------------------------------------------
(* A caller that requests any direction, as TestFSM does, with the *)
(* simulator's callbacks *)

FreeInit == \E p \in FreePlans : InitOn(p)

\* fsm.Event(d, bender) for any direction d; the caller ignores the error
FreeEvent ==
    /\ pc = "run"
    /\ Len(bender.path) < MaxPath
    /\ \E d \in Directions : \E r \in {FSMEvent(fsm, bender, d, MainArgs)} :
          /\ Call(d, r)
          /\ pc' = IF r.panic THEN "panic" ELSE "run"
    /\ UNCHANGED <<plan, out, looped, extra>>

NextFree == FreeEvent

SpecFree == FreeInit /\ [][NextFree]_vars

----------------------------------------------------------------------------
(* A caller of Remember alone, as the loop part of TestBenderSimulator *)

\* the state identifiers the test records: " 11" and "B32"
TestStates ==
    {UniqueDst([Dst |-> " ", dstC |-> Pair(1, 1)]),
     UniqueDst([Dst |-> "B", dstC |-> Pair(3, 2)])}

\* the directions the test records
TestDirs == {SOUTH, EAST}

RememberInit ==
    /\ plan = PlanNominal
    /\ fsm = NewFSM(PlanNominal)
    /\ \E n \in 0 .. MaxThreshold : bender = NewBenderSimulator(n)
    /\ pc = "run"
    /\ last = NoCall
    /\ out = <<>>
    /\ ids = <<>>
    /\ looped = FALSE
    /\ extra = 0

\* bender.Remember(dir, state)
RememberCall ==
    /\ pc = "run"
    /\ Len(ids) < MaxRemember
    /\ \E dir \in TestDirs : \E state \in TestStates :
          /\ bender' = Remember(bender, dir, state)
          /\ ids' = Append(ids, state)
    /\ UNCHANGED <<plan, fsm, pc, last, out, looped, extra>>

\* the caller reads ShowPath and stops
RememberShow ==
    /\ pc = "run"
    /\ pc' = "exit"
    /\ out' = ShowPath(bender)
    /\ looped' = Loop(bender)
    /\ UNCHANGED <<plan, fsm, bender, last, ids, extra>>

NextRemember == RememberCall \/ RememberShow

SpecRemember == RememberInit /\ [][NextRemember]_vars

----------------------------------------------------------------------------
(* Vocabulary of the properties *)

\* the plan is rectangular with a one-tile wall frame and exactly one start
FramedOneStart(p) == WallFrame(p) /\ CountTile(p, "@") = 1

\* the neighbour of p in direction d: SOUTH = y+1, NORTH = y-1, EAST = x+1, WEST = x-1
Neighbour(p, d) ==
    [x |-> p.x + (IF d = EAST THEN 1 ELSE IF d = WEST THEN -1 ELSE 0),
     y |-> p.y + (IF d = SOUTH THEN 1 ELSE IF d = NORTH THEN -1 ELSE 0)]

\* p addresses a tile of the plan
InsideGrid(p) == p.x >= 0 /\ p.x < Cols(plan) /\ p.y >= 0 /\ p.y < Rows(plan)

\* an Event call has been made and `last` describes it
Requested == last.evt # ""
\* the last request was in bounds, so that an event object was built
InBoundsRequest == Requested /\ last.err = ErrNil
\* the last request was cancelled by the pre-transition callback
CancelledRequest == InBoundsRequest /\ last.e.Cancelled
\* the last request was committed, its post-transition callback ran to its end
CommittedRequest == InBoundsRequest /\ ~last.e.Cancelled /\ ~last.panic

\* the names of the callbacks the last request invoked, in order
CallNames == [i \in 1 .. Len(last.calls) |-> last.calls[i].cb]

\* this step is an Event call (every step but main's final print is one)
IsCall == pc = "run" /\ pc' # "exit"

Reverse(q) == [i \in 1 .. Len(q) |-> q[Len(q) + 1 - i]]

----------------------------------------------------------------------------
(* C1 *)

\* C1: every driver run on a rectangular plan with a one-tile wall frame and
\* exactly one start tile eventually leaves the loop with finished or looped
\* true and prints the path, the loop sentinel when looped.
C1_RunTerminates ==
    FramedOneStart(plan) =>
        <>(/\ pc = "exit"
           /\ Done(bender) \/ Loop(bender)
           /\ Loop(bender) => out = <<LOOP>>)

----------------------------------------------------------------------------
(* C2 *)

\* C2: once the looped predicate has become true in a driver run whose
\* threshold is (rows-2)*(columns-2), the continued simulation never enters
\* the terminal tile.
C2_NoFalseLoopReport ==
    (FramedOneStart(plan) /\ bender.maxNumStates = (Rows(plan) - 2) * (Cols(plan) - 2))
        => ~(looped /\ Done(bender))

----------------------------------------------------------------------------
(* C3 *)

\* C3: a request whose pre-transition callback cancels the event leaves the
\* position where it was, invokes no post-transition callback, appends no
\* path entry and returns no error.
C3_CancellationInvariant ==
    [][(IsCall /\ last'.e.Cancelled) =>
          /\ fsm'.curr = fsm.curr
          /\ last'.from = fsm.curr
          /\ CallNames' = <<"before">>
          /\ bender'.path = bender.path
          /\ last'.err = ErrNil]_vars

\* a request was cancelled after a move had been committed
C3_Witness ==
    /\ CancelledRequest
    /\ fsm.curr = last.from
    /\ Len(bender.path) > 0

----------------------------------------------------------------------------
(* C4 *)

\* C4: a request in direction d from position p that is in bounds and not
\* cancelled has set the position to p plus the unit offset of d when the
\* post-transition callback is entered (and the destination is that tile).
C4_LandsOnNeighbour ==
    (Requested /\ InsideGrid(Neighbour(last.from, last.evt)) /\ ~last.e.Cancelled) =>
        /\ last.err = ErrNil
        /\ last.e.dstC = Neighbour(last.from, last.evt)
        /\ Len(last.calls) = 2
        /\ last.calls[2].cb = "enter"
        /\ last.calls[2].curr = Neighbour(last.from, last.evt)
        /\ (last.e.Dst # "T" /\ ~last.panic) => fsm.curr = Neighbour(last.from, last.evt)

\* a committed move to the north (y - 1) from a position off the top row
C4_Witness ==
    /\ CommittedRequest
    /\ last.evt = NORTH
    /\ fsm.curr = Pair(last.from.x, last.from.y - 1)

----------------------------------------------------------------------------
(* C5 *)

\* C5: a request whose destination is outside the grid returns the bounds
\* failure, invokes no callback and changes neither the position, the tiles
\* nor the simulator; a request whose destination is inside returns no error.
C5_BoundsFailure ==
    [][IsCall =>
          /\ last'.from = fsm.curr
          /\ (last'.err = ErrUnknownState) <=> ~InsideGrid(Neighbour(fsm.curr, last'.evt))
          /\ ~InsideGrid(Neighbour(fsm.curr, last'.evt)) =>
                /\ last'.calls = <<>>
                /\ fsm' = fsm
                /\ bender' = bender
                /\ ids' = ids]_vars

\* a request off the grid was refused after a move had been committed
C5_Witness ==
    /\ Requested
    /\ last.err = ErrUnknownState
    /\ ~InsideGrid(Neighbour(last.from, last.evt))
    /\ Len(bender.path) > 0

----------------------------------------------------------------------------
(* C6 *)

\* the event a request must hand to its callbacks
ExpectedEvent ==
    [Event |-> last.evt,
     Dst |-> last.before[Neighbour(last.from, last.evt).y + 1][Neighbour(last.from, last.evt).x + 1],
     dstC |-> Neighbour(last.from, last.evt),
     Cancelled |-> FALSE,
     Args |-> MainArgs]

\* C6: every in-bounds request invokes the pre-transition callback once, with
\* the requested direction, the destination tile as it stood before the
\* callback, the destination coordinates and the caller's arguments; it
\* invokes the post-transition callback once, after it and with the same
\* event, exactly when the request is not cancelled; the request that follows
\* a cancelled one starts from the unchanged position.
C6_CallbackProtocol ==
    [][IsCall =>
          /\ last'.from = fsm.curr
          /\ last'.before = fsm.states
          /\ InBoundsRequest' =>
                /\ CallNames' = IF last'.e.Cancelled THEN <<"before">>
                                ELSE <<"before", "enter">>
                /\ last'.calls[1].e = ExpectedEvent'
                /\ last'.calls[1].curr = fsm.curr
                /\ \A i \in 1 .. Len(last'.calls) : last'.calls[i].e = last'.calls[1].e
          /\ CancelledRequest => last'.from = last.from]_vars

\* a committed request that destroyed its destination tile: the callbacks
\* received the tile as it stood before
C6_Witness ==
    /\ CommittedRequest
    /\ CallNames = <<"before", "enter">>
    /\ last.calls[2].e.Dst = "X"
    /\ StateAt(fsm, last.e.dstC) = " "

----------------------------------------------------------------------------
(* C7 *)

\* C7: a move onto a breakable obstacle with breaker mode active replaces the
\* tile by empty and commits (position, path entry, no hit recorded, priority
\* selection kept); without breaker mode it is cancelled as for a wall (hit
\* recorded, modifier cleared, priority advanced, tiles and position kept).
C7_BreakableObstacle ==
    [][(IsCall /\ last'.err = ErrNil /\ last'.e.Dst = "X") =>
          IF bender.breaker
          THEN /\ StateAt(fsm', last'.e.dstC) = " "
               /\ ~last'.e.Cancelled
               /\ fsm'.curr = last'.e.dstC
               /\ bender'.path = Append(bender.path, last'.evt)
               /\ ~bender'.boom
               /\ bender'.currDir = bender.currDir
          ELSE /\ last'.e.Cancelled
               /\ fsm' = fsm
               /\ bender'.boom
               /\ bender'.pathModifier = ""
               /\ bender'.currDir = IF bender.resetDir \/ bender.invertPrio THEN 0
                                    ELSE (bender.currDir + 1) % 4
               /\ bender'.path = bender.path]_vars

\* a breakable obstacle was destroyed and entered in breaker mode
C7_Witness ==
    /\ CommittedRequest
    /\ last.e.Dst = "X"
    /\ bender.breaker
    /\ StateAt(fsm, last.e.dstC) = " "
    /\ fsm.curr = last.e.dstC

----------------------------------------------------------------------------
(* C8 *)

\* the order of NewBenderSimulator and its reversal
DefaultOrder == <<SOUTH, EAST, NORTH, WEST>>
ReversedOrder == <<WEST, NORTH, EAST, SOUTH>>

\* C8: a committed move onto an invert-priority tile changes neither the
\* priority ordering nor the direction returned next; the ordering changes only
\* at an obstacle hit with the inversion pending, which reverses it and makes
\* the first direction of the reversed ordering the next direction (WEST from
\* the default order, SOUTH from the reversed one).
C8_DeferredInversion ==
    [][IsCall =>
          /\ (CommittedRequest' /\ last'.e.Dst = "I") =>
                /\ bender'.priorities = bender.priorities
                /\ Direction(bender') = Direction(bender)
          /\ bender'.priorities # bender.priorities =>
                CancelledRequest' /\ bender.invertPrio
          /\ (CancelledRequest' /\ bender.invertPrio) =>
                /\ bender'.priorities = Reverse(bender.priorities)
                /\ Direction(bender') = bender'.priorities[1]
                /\ bender.priorities = DefaultOrder => Direction(bender') = WEST
                /\ bender.priorities = ReversedOrder => Direction(bender') = SOUTH]_vars

\* an obstacle hit has applied a pending inversion: the ordering is reversed
\* and WEST comes next
C8_Witness ==
    /\ CancelledRequest
    /\ \E i \in 1 .. Len(ids) : ids[i][1] = "I"
    /\ bender.priorities = ReversedOrder
    /\ ~bender.invertPrio
    /\ bender.currDir = 0
    /\ Direction(bender) = WEST

----------------------------------------------------------------------------
(* C9 *)

\* C9 as stated: every committed move onto an invert-priority tile leaves the
\* pending-inversion flag armed, the flag stays armed through every further
\* committed move, and the next obstacle hit reverses the ordering and disarms.
C9_ArmedUntilHit ==
    [][IsCall =>
          /\ (CommittedRequest' /\ last'.e.Dst = "I") => bender'.invertPrio
          /\ (CommittedRequest' /\ bender.invertPrio) => bender'.invertPrio
          /\ (CancelledRequest' /\ bender.invertPrio) =>
                /\ bender'.priorities = Reverse(bender.priorities)
                /\ ~bender'.invertPrio]_vars

\* C9 amended: a committed move onto an invert-priority tile toggles the
\* pending-inversion flag (arms it when disarmed, disarms it when armed), a
\* committed move onto any other tile keeps it, and an obstacle hit reverses
\* the ordering and disarms the flag when it is armed and changes neither when
\* it is not.
C9_ToggledUntilHit ==
    [][IsCall =>
          /\ (CommittedRequest' /\ last'.e.Dst = "I") =>
                bender'.invertPrio = ~bender.invertPrio
          /\ (CommittedRequest' /\ last'.e.Dst # "I") =>
                bender'.invertPrio = bender.invertPrio
          /\ (CancelledRequest' /\ bender.invertPrio) =>
                /\ bender'.priorities = Reverse(bender.priorities)
                /\ ~bender'.invertPrio
          /\ (CancelledRequest' /\ ~bender.invertPrio) =>
                /\ bender'.priorities = bender.priorities
                /\ ~bender'.invertPrio]_vars

\* a committed move onto an invert-priority tile has left the flag disarmed:
\* the tile was entered with the inversion already pending
C9_Witness ==
    /\ CommittedRequest
    /\ last.e.Dst = "I"
    /\ ~bender.invertPrio
    /\ bender.priorities = DefaultOrder

----------------------------------------------------------------------------
(* C10 *)

\* the i-th recorded identifier had been recorded before
IsRepeat(i) == \E j \in 1 .. i - 1 : ids[j] = ids[i]

\* the last k recordings are all repeats
TrailingRepeats(k) ==
    k <= Len(ids) /\ \A i \in Len(ids) - k + 1 .. Len(ids) : IsRepeat(i)

\* the last k recordings are all repeats of the same identifier
SameRepeated(k) ==
    /\ k >= 1
    /\ TrailingRepeats(k)
    /\ \A i \in Len(ids) - k + 1 .. Len(ids) : ids[i] = ids[Len(ids)]

\* the number of consecutive repeats recorded last
Revisits == CHOOSE k \in 0 .. Len(ids) : TrailingRepeats(k) /\ ~TrailingRepeats(k + 1)

----------------------------------------------------------------------------
(* A caller of the direction methods alone, as the first part of
   TestBenderSimulator: NextDirection, Boom, BackOnTrack, PathModifier and
   InvertPriorities in any order *)

\* the threshold the test constructs the simulator with
TestStateNum == 9

\* no call yet; streak counts the NextDirection calls made in a row, start,
\* dir and reset are currDir, Direction() and resetDir before the first of them
NoPolicyCall == [op |-> "", streak |-> 0, start |-> 0, dir |-> SOUTH, reset |-> FALSE]

PolicyInit ==
    /\ plan = PlanNominal
    /\ fsm = NewFSM(PlanNominal)
    /\ bender = NewBenderSimulator(TestStateNum)
    /\ pc = "run"
    /\ last = NoPolicyCall
    /\ out = <<>>
    /\ ids = <<>>
    /\ looped = FALSE
    /\ extra = 0

\* a call other than NextDirection ends the streak
PolicyCalled(op) == last' = [last EXCEPT !.op = op, !.streak = 0]

\* bender.NextDirection(); a fifth call in a row starts a new streak
PolicyNextDirection ==
    /\ bender' = NextDirection(bender)
    /\ last' = IF last.streak \in 1 .. 3
               THEN [last EXCEPT !.op = "NextDirection", !.streak = last.streak + 1]
               ELSE [op |-> "NextDirection", streak |-> 1, start |-> bender.currDir,
                     dir |-> Direction(bender), reset |-> bender.resetDir]
    /\ UNCHANGED <<plan, fsm, pc, out, ids, looped, extra>>

\* bender.Boom()
PolicyBoom ==
    /\ bender' = Boom(bender)
    /\ PolicyCalled("Boom")
    /\ UNCHANGED <<plan, fsm, pc, out, ids, looped, extra>>

\* if bender.Hurts() { bender.BackOnTrack() }
PolicyBackOnTrack ==
    /\ Hurts(bender)
    /\ bender' = BackOnTrack(bender)
    /\ PolicyCalled("BackOnTrack")
    /\ UNCHANGED <<plan, fsm, pc, out, ids, looped, extra>>

\* bender.PathModifier(dir)
PolicyPathModifier ==
    /\ \E dir \in Directions : bender' = PathModifier(bender, dir)
    /\ PolicyCalled("PathModifier")
    /\ UNCHANGED <<plan, fsm, pc, out, ids, looped, extra>>

\* bender.InvertPriorities()
PolicyInvertPriorities ==
    /\ bender' = InvertPriorities(bender)
    /\ PolicyCalled("InvertPriorities")
    /\ UNCHANGED <<plan, fsm, pc, out, ids, looped, extra>>

NextPolicy ==
    \/ PolicyNextDirection
    \/ PolicyBoom
    \/ PolicyBackOnTrack
    \/ PolicyPathModifier
    \/ PolicyInvertPriorities

SpecPolicy == PolicyInit /\ [][NextPolicy]_vars

----------------------------------------------------------------------------
(* C11 *)

\* four NextDirection calls have just been made in a row
FourInARow == last.op = "NextDirection" /\ last.streak = 4

\* C11 as stated: from any reachable state of the simulator and any selection
\* index, four NextDirection calls in a row return currDir to the index it had
\* before them, and Direction(), absent a path modifier, to its direction.
C11_FourCallsReturn ==
    FourInARow =>
        /\ bender.currDir = last.start
        /\ bender.pathModifier = "" => Direction(bender) = last.dir

\* C11: from any reachable state of the simulator whose resetDir is clear and
\* any selection index, four NextDirection calls in a row return currDir to
\* the index it had before them, and Direction(), absent a path modifier, to
\* its direction; when resetDir is set, the first of the calls selects index 0
\* and clears it, and the four calls end on the last index, 3.
C11_FourCallsCycle ==
    FourInARow =>
        /\ ~last.reset =>
              /\ bender.currDir = last.start
              /\ bender.pathModifier = "" => Direction(bender) = last.dir
        /\ last.reset => bender.currDir = Len(bender.priorities) - 1
        /\ ~bender.resetDir

\* four calls in a row from index 2 of the reversed ordering came back to it
C11_Witness ==
    /\ FourInARow
    /\ ~last.reset
    /\ last.start = 2
    /\ bender.currDir = 2
    /\ bender.priorities = <<WEST, NORTH, EAST, SOUTH>>
    /\ bender.pathModifier = ""
    /\ Direction(bender) = last.dir

----------------------------------------------------------------------------
(* C12 *)

\* the plan holds no tile that sets a path modifier or inverts the priorities
PlainPriorities == \A t \in {"S", "N", "E", "W", "I"} : CountTile(plan, t) = 0

\* C12: a committed move that follows an obstacle hit clears boom and sets
\* resetDir; the first obstacle hit after it (resetDir set) selects index 0 of
\* the ordering whatever currDir is and clears resetDir; every later hit of the
\* same episode (boom still set) advances currDir by one, wrapping after the
\* last index; a committed move leaves currDir alone.
C12_EscapeResetsSearch ==
    [][IsCall =>
          /\ (CommittedRequest' /\ Hurts(bender)) =>
                ~Hurts(bender') /\ bender'.resetDir
          /\ CommittedRequest' =>
                /\ bender'.currDir = bender.currDir
                /\ bender.resetDir => bender'.resetDir
          /\ (CancelledRequest' /\ bender.resetDir) =>
                /\ ~Hurts(bender)
                /\ bender'.currDir = 0
                /\ bender'.priorities[1] = Direction(bender')
          /\ (CancelledRequest' /\ Hurts(bender)) =>
                /\ ~bender.resetDir
                /\ bender'.currDir = (bender.currDir + 1) % Len(bender.priorities)
          /\ CancelledRequest' => Hurts(bender') /\ ~bender'.resetDir]_vars

\* an obstacle was hit in direction EAST, index 1 of the default ordering, on a
\* plan where only the ordering gives directions, after an earlier hit and a
\* committed move: the selection is index 0, SOUTH, not index 2
C12_Witness ==
    /\ PlainPriorities
    /\ CancelledRequest
    /\ last.evt = EAST
    /\ Len(bender.path) > 0
    /\ bender.currDir = 0
    /\ Direction(bender) = SOUTH

----------------------------------------------------------------------------
(* C13 *)

\* the tiles whose entry sets the path modifier, and the direction each sets
ModifierTiles == {"S", "N", "E", "W"}
ModifierOf(t) ==
    IF t = "S" THEN SOUTH ELSE IF t = "N" THEN NORTH ELSE IF t = "E" THEN EAST ELSE WEST

\* C13 as stated: once a committed move onto a path-modifier tile has set the
\* modifier, Direction() returns that tile's direction at every later request
\* until an obstacle is hit: no committed move changes a modifier that is set.
C13_OverrideUntilHit ==
    [][IsCall =>
          /\ (CommittedRequest' /\ last'.e.Dst \in ModifierTiles /\ bender.pathModifier = "") =>
                Direction(bender') = ModifierOf(last'.e.Dst)
          /\ (CommittedRequest' /\ bender.pathModifier # "") =>
                Direction(bender') = Direction(bender)
          /\ CancelledRequest' =>
                /\ bender'.pathModifier = ""
                /\ Direction(bender') = bender'.priorities[bender'.currDir + 1]]_vars

\* C13: a committed move onto a path-modifier tile makes Direction() return
\* that tile's direction whatever the selection of the ordering is; a committed
\* move onto any other tile keeps the modifier, so Direction() returns it at
\* every later request until an obstacle is hit or another path-modifier tile
\* is entered, which replaces it by its own direction; every obstacle hit
\* clears the modifier, after which Direction() is priorities[currDir].
C13_OverrideUntilHitOrReplaced ==
    [][IsCall =>
          /\ (CommittedRequest' /\ last'.e.Dst \in ModifierTiles) =>
                /\ bender'.pathModifier = ModifierOf(last'.e.Dst)
                /\ Direction(bender') = ModifierOf(last'.e.Dst)
          /\ (CommittedRequest' /\ last'.e.Dst \notin ModifierTiles) =>
                /\ bender'.pathModifier = bender.pathModifier
                /\ bender.pathModifier # "" => Direction(bender') = Direction(bender)
          /\ bender.pathModifier # "" => last'.evt = bender.pathModifier
          /\ CancelledRequest' =>
                /\ bender'.pathModifier = ""
                /\ Direction(bender') = bender'.priorities[bender'.currDir + 1]]_vars

\* a move was committed under a modifier that differs from the selection of
\* the ordering, onto a tile that is no modifier tile, and the modifier stays
C13_Witness ==
    /\ CommittedRequest
    /\ last.e.Dst \notin ModifierTiles
    /\ bender.pathModifier = last.evt
    /\ bender.priorities[bender.currDir + 1] # bender.pathModifier
    /\ Direction(bender) = last.evt

----------------------------------------------------------------------------
(* C14 *)

\* the positions of the plan's tiles t
TilesAt(t) ==
    {p \in {Pair(i, j) : i \in 0 .. Cols(plan) - 1, j \in 0 .. Rows(plan) - 1} :
        plan[p.y + 1][p.x + 1] = t}

\* the fields of the simulator a tile's effect sets: Reached, InvertBreaker,
\* PathModifier and InvertPriorities
TileEffects(b) == <<b.done, b.breaker, b.pathModifier, b.invertPrio, b.priorities>>

\* C14: on a plan with exactly two teleport tiles TeleportDst maps each of the
\* two to the other and never panics; a committed move onto one of them leaves
\* the position on the other one, has invoked the two callbacks once each for
\* the tile moved onto and none for the landing tile, has appended one path
\* entry and one state identifier, that of the tile moved onto, and has run no
\* tile effect on the simulator.
C14_TeleportSymmetric ==
    [][(IsCall /\ Cardinality(TilesAt("T")) = 2) =>
          /\ ~TeleportPanics(fsm) /\ ~last'.panic
          /\ \A t0 \in TilesAt("T") : \A t1 \in TilesAt("T") \ {t0} :
                TeleportDst(fsm, t0) = t1 /\ TeleportDst(fsm, t1) = t0
          /\ (CommittedRequest' /\ last'.e.Dst = "T") =>
                /\ last'.e.dstC = Neighbour(fsm.curr, last'.evt)
                /\ TilesAt("T") = {last'.e.dstC, fsm'.curr}
                /\ fsm'.curr # last'.e.dstC
                /\ fsm'.states = fsm.states
                /\ CallNames' = <<"before", "enter">>
                /\ \A i \in 1 .. 2 : last'.calls[i].e.dstC = last'.e.dstC
                /\ bender'.path = Append(bender.path, last'.evt)
                /\ ids' = Append(ids, UniqueDst(last'.e))
                /\ TileEffects(bender') = TileEffects(bender)]_vars

\* a move was committed onto one of exactly two teleport tiles and the position
\* is the other one, which is no neighbour of the position moved from
C14_Witness ==
    /\ Cardinality(TilesAt("T")) = 2
    /\ CommittedRequest
    /\ last.e.Dst = "T"
    /\ last.e.dstC = Neighbour(last.from, last.evt)
    /\ fsm.curr \in TilesAt("T") \ {last.e.dstC}
    /\ \A d \in Directions : fsm.curr # Neighbour(last.from, d)
    /\ Len(bender.path) > 1

----------------------------------------------------------------------------
(* C15 *)

\* C15: on every plan whose number of teleport tiles is not two, a move that
\* is not cancelled onto a teleport tile ends the run in the panic of
\* TeleportDst, with the position on the tile moved onto: it never relocates
\* the agent and the run never goes on.
C15_MalformedTeleportFatal ==
    [][(/\ IsCall
        /\ Cardinality(TilesAt("T")) # 2
        /\ InBoundsRequest' /\ ~last'.e.Cancelled
        /\ last'.e.Dst = "T") =>
          /\ last'.panic
          /\ pc' = "panic"
          /\ fsm'.curr = last'.e.dstC]_vars

----------------------------------------------------------------------------
(* C16 *)

\* C16: the recorded path is append-only: a committed move appends its
\* direction and nothing else, a request that is cancelled or off the grid
\* appends nothing; one state identifier is recorded per path entry; what
\* ShowPath exposes, and main prints, is the recorded path when loopCnt is not
\* above the threshold and the one-entry loop sentinel when it is.
C16_RunResult ==
    [][/\ IsCall =>
             /\ CommittedRequest' =>
                   /\ bender'.path = Append(bender.path, last'.evt)
                   /\ last'.evt = Direction(bender)
             /\ ~CommittedRequest' => bender'.path = bender.path
       /\ Len(bender'.path) = Len(ids')
       /\ ShowPath(bender') = IF bender'.loopCnt > bender'.maxNumStates
                              THEN <<LOOP>> ELSE bender'.path
       /\ pc' = "exit" => out' = ShowPath(bender)]_vars

\* main has printed the recorded path of a run of more than one committed
\* move, in which the direction changed
C16_Witness ==
    /\ pc = "exit"
    /\ ~Loop(bender)
    /\ out = bender.path
    /\ Len(bender.path) > 1
    /\ \E i \in 1 .. Len(bender.path) - 1 : bender.path[i] # bender.path[i + 1]

----------------------------------------------------------------------------
(* C17 *)

\* the positions whose tile this step changes
ChangedTiles ==
    {p \in {Pair(i, j) : i \in 0 .. Cols(plan) - 1, j \in 0 .. Rows(plan) - 1} :
        StateAt(fsm', p) # StateAt(fsm, p)}

\* C17: no step changes the number of rows of the grid or the length of a row;
\* the only tile a request changes is its destination, from 'X' to ' ', while
\* the breaker mode is active, and the move is then committed; a request made
\* with the breaker mode off, cancelled on a wall or off the grid changes none.
C17_GridFrame ==
    [][/\ Len(fsm'.states) = Len(plan)
       /\ \A i \in 1 .. Len(plan) : Len(fsm'.states[i]) = Len(plan[i])
       /\ fsm'.teleports = fsm.teleports
       /\ \A p \in ChangedTiles :
             /\ IsCall
             /\ p = Neighbour(fsm.curr, last'.evt)
             /\ StateAt(fsm, p) = "X" /\ StateAt(fsm', p) = " "
             /\ Breaker(bender)
             /\ CommittedRequest'
             /\ fsm'.curr = p]_vars

\* a breakable obstacle of the plan has been replaced by an empty tile, and it
\* is the only tile that differs from the plan
C17_Witness ==
    /\ CommittedRequest
    /\ last.e.Dst = "X"
    /\ plan[last.e.dstC.y + 1][last.e.dstC.x + 1] = "X"
    /\ StateAt(fsm, last.e.dstC) = " "
    /\ \A i \in 1 .. Rows(plan) : \A j \in 1 .. Cols(plan) :
          fsm.states[i][j] # plan[i][j] => Pair(j - 1, i - 1) = last.e.dstC

----------------------------------------------------------------------------
(* A caller of UniqueDst alone: two events with destinations anywhere on a
   grid of up to MaxCoord + 1 columns and rows *)

\* the largest column and row index of a destination
MaxCoord == 11

\* the destination tiles of the two events
UniqueTiles == {" ", "$"}

\* the events UniqueDst is asked about: it reads Dst and dstC alone
UniqueEvents ==
    {[Dst |-> t, dstC |-> Pair(i, j)] : t \in UniqueTiles, i \in 0 .. MaxCoord, j \in 0 .. MaxCoord}

UniqueInit ==
    /\ plan = PlanNominal
    /\ fsm = NewFSM(PlanNominal)
    /\ bender = NewBenderSimulator(calcNumStates(PlanNominal))
    /\ pc = "run"
    /\ \E a \in UniqueEvents : last = [a |-> a, b |-> a]
    /\ out = <<>>
    /\ ids = <<>>
    /\ looped = FALSE
    /\ extra = 0

\* a.UniqueDst() and b.UniqueDst() for a second event b
UniqueDstCall ==
    /\ pc = "run"
    /\ \E b \in UniqueEvents :
          /\ last' = [last EXCEPT !.b = b]
          /\ ids' = <<UniqueDst(last.a), UniqueDst(b)>>
    /\ pc' = "exit"
    /\ UNCHANGED <<plan, fsm, bender, out, looped, extra>>

NextUnique == UniqueDstCall

SpecUnique == UniqueInit /\ [][NextUnique]_vars

----------------------------------------------------------------------------
(* C18 *)

\* C18: UniqueDst is injective on the destinations of a grid of any width and
\* height: two events that differ in their tile or their coordinates get
\* different identifiers.
C18_UniqueDstInjective ==
    (pc = "exit" /\ last.a # last.b) => ids[1] # ids[2]

----------------------------------------------------------------------------
(* C19 *)

\* C19: on every plan with a frame of '#' alone, exactly one '@' and no or two
\* 'T', every state of a driver run has the position inside the grid, off the
\* frame and on a tile that is not '#', and no Event call has returned the
\* error of a destination off the grid or ended in a panic.
C19_StaysInside ==
    (FramedOneStart(plan) /\ Cardinality(TilesAt("T")) \in {0, 2}) =>
        /\ InsideGrid(fsm.curr)
        /\ fsm.curr.x > 0 /\ fsm.curr.x < Cols(plan) - 1
        /\ fsm.curr.y > 0 /\ fsm.curr.y < Rows(plan) - 1
        /\ StateAt(fsm, fsm.curr) # "#"
        /\ last.err = ErrNil
        /\ pc \notin {"failed", "panic"}

\* on such a plan with two teleports a request towards the frame was refused
\* after a move onto a teleport: the position is on the other teleport
C19_Witness ==
    /\ FramedOneStart(plan)
    /\ Cardinality(TilesAt("T")) = 2
    /\ CancelledRequest
    /\ last.e.Dst = "#"
    /\ StateAt(fsm, fsm.curr) = "T"
    /\ Len(bender.path) > 0

----------------------------------------------------------------------------
(* C20 *)

\* C20: in a driver run with a threshold that is not negative Done() and
\* Loop() are never both true: the run is finished only by a committed move
\* onto '$', whose state identifier was not recorded before, so that loopCnt
\* is 0 after it, and main then prints the recorded path and not the sentinel.
C20_FinishedNotLooped ==
    bender.maxNumStates >= 0 =>
        /\ ~(Done(bender) /\ Loop(bender))
        /\ Done(bender) =>
              /\ CommittedRequest
              /\ last.e.Dst = "$"
              /\ fsm.curr = last.e.dstC
              /\ ids[Len(ids)] = UniqueDst(last.e)
              /\ \A i \in 1 .. Len(ids) - 1 : ids[i] # ids[Len(ids)]
              /\ bender.loopCnt = 0
              /\ pc = "exit" => out = bender.path /\ out # <<LOOP>>

\* main has printed the path of a run that reached '$' after it had recorded
\* a state identifier twice
C20_Witness ==
    /\ pc = "exit"
    /\ Done(bender)
    /\ out = bender.path
    /\ \E i \in 1 .. Len(ids) : \E j \in 1 .. Len(ids) : i < j /\ ids[i] = ids[j]

====
